---- MODULE Spec2Model ----
(***************************************************************************)
(* User CRUD service: Request Handler -> UserService -> UserRepository ->  *)
(* SQLAlchemy session over SQLite (sqlite+aiosqlite).                      *)
(*                                                                         *)
(* A request is one unit of work: get_db opens a session, the handler      *)
(* calls the service, the service calls the repository, and get_db commits *)
(* when the handler returns and rolls back when it raises.  The steps of a *)
(* request are the database statements it awaits; requests of different    *)
(* sessions interleave between statements.                                 *)
(*                                                                         *)
(* SQLite allows one writer: the first INSERT/UPDATE/DELETE of a session   *)
(* begins its transaction and takes the write lock until commit or         *)
(* rollback.  SELECTs of other sessions read the committed table.          *)
(*                                                                         *)
(* Spec interleaves the requests of two sessions; SeqSpec issues requests  *)
(* one at a time, listings included; ListSpec lists a table that already   *)
(* holds records; LifeSpec takes one record through create, get, update,   *)
(* delete, get; ReuseSpec creates, deletes and reuses emails; UowSpec      *)
(* interleaves two requests whose commit may fail; AppSpec is the          *)
(* application and the seed script as wired by Container.                  *)
(***************************************************************************)
EXTENDS Integers, Sequences, FiniteSets, TLC

\* ---------------------------------------------------------------- bounds
NumSessions == 2
MaxIds == 2
MaxClock == 1
MaxRequests == 3
\* Requests of a run in which a commit may fail.
MaxUow == 2
\* Requests of a run in which emails are given up and taken again.
MaxReuse == 4
\* The largest number of users a seed run is asked for.
MaxBatch == 3
\* Records already stored when a listing scenario starts, and the pages asked
\* for.
MaxSeed == 15
MaxPage == 4
\* Width of the integers the database driver binds.  sqlite3 binds a Python
\* int as a signed 64-bit INTEGER; the model keeps the signed range and
\* scales the width so that the products stay within TLC's 32-bit integers.
IntBits == 16

Sessions == 1..NumSessions
Ids == 1..MaxIds
Names == {"Ann", "Bob"}
\* Two addresses that differ only in the case of the local part.
Emails == {"ann@x.io", "Ann@x.io"}

\* A field the patch does not supply, and a field supplied as null (None).
Unset == "<unset>"
Null == "<null>"

NoRow == [id |-> 0, name |-> "", email |-> "", created_at |-> 0, updated_at |-> 0]

VARIABLES
    db,       \* committed rows of table users, in rowid (insertion) order
    tx,       \* the rows as the session holding the write lock sees them
    writer,   \* the session holding SQLite's write lock, 0 when none
    clock,    \* datetime.utcnow()
    issued,   \* ids uuid4 has produced so far
    gone,     \* ids whose deletion has been committed
    started,  \* requests begun so far
    rq        \* per session: the request in flight

vars == <<db, tx, writer, clock, issued, gone, started, rq>>

\* None where a UserService is expected; an object is told from another by
\* the number it got when it was constructed.
NoService == [obj |-> 0, repository |-> 0, session |-> 0]

Idle ==
    [pc |-> "idle", layer |-> "-", op |-> "-", id |-> 0, name |-> Unset,
     email |-> Unset, obj |-> NoRow, ret |-> "none", user |-> NoRow,
     exc |-> "none", excId |-> 0, status |-> 0, called |-> {}, db0 |-> <<>>,
     page |-> 0, per_page |-> 0, skip |-> 0, limit |-> 0, args |-> <<>>,
     users |-> <<>>, total |-> 0, total_pages |-> 0,
     msg |-> "", detail |-> "", ends |-> <<>>, reraised |-> FALSE,
     service |-> NoService, n |-> 0, created_count |-> 0, failed_count |-> 0]

\* ------------------------------------------------------- SQL on the table
\* What session s reads: its own uncommitted writes when it holds the lock.
View(s) == IF writer = s THEN tx ELSE db

\* Another session holds the write lock: the statement ends in
\* "database is locked" once the busy timeout has passed.
Locked(s) == writer # 0 /\ writer # s

RowIds(view) == {view[i].id : i \in DOMAIN view}

\* Faulty variant: the WHERE clause is missing, the first row is taken.
SelectFirst(view, id) == IF view = <<>> THEN NoRow ELSE view[1]

\* SELECT ... FROM users WHERE users.id = :id
SelectById(view, id) ==
    IF \E i \in DOMAIN view : view[i].id = id
    THEN view[CHOOSE i \in DOMAIN view : view[i].id = id]
    ELSE NoRow

\* Faulty variant: the index is built on the wrong column.
EmailIndexOnName(view, e) == {i \in DOMAIN view : view[i].name = e}

\* The unique index on users.email: the positions of the rows holding e.
\* Text comparison is exact (SQLite's BINARY collation).
EmailIndex(view, e) == {i \in DOMAIN view : view[i].email = e}

\* Faulty variant: the column is declared without unique=True.
UniqueNotEnforced(view, id, e) == FALSE

\* Faulty variant: the constraint counts the written row itself.
UniqueViolatedAnyRow(view, id, e) == \E i \in DOMAIN view : view[i].email = e

\* UNIQUE constraint of users.email, checked when a row is written.
UniqueViolated(view, id, e) == \E i \in EmailIndex(view, e) : view[i].id # id

\* Faulty variant: the columns are nullable.
NotNullNotEnforced(row) == FALSE

\* NOT NULL constraints of users.name and users.email.
NotNullViolated(row) == row.name = Null \/ row.email = Null

\* Faulty variant: the UPDATE has no WHERE clause for the name and the stamp.
ReplaceRowEverywhere(view, row) ==
    [i \in DOMAIN view |-> IF view[i].id = row.id THEN row
                           ELSE [view[i] EXCEPT !.name = row.name,
                                                !.updated_at = row.updated_at]]

\* The UPDATE of one row, found by its primary key.
ReplaceRow(view, row) ==
    [i \in DOMAIN view |-> IF view[i].id = row.id THEN row ELSE view[i]]

\* Faulty variant: the DELETE is never sent.
RemoveRowNone(view, id) == view

\* Faulty variant: the row is kept and only loses its id (a soft delete).
RemoveRowKeepsEmail(view, id) ==
    [i \in DOMAIN view |-> IF view[i].id = id THEN [view[i] EXCEPT !.id = 0]
                           ELSE view[i]]

\* The DELETE of one row, found by its primary key.
RemoveRow(view, id) == SelectSeq(view, LAMBDA r : r.id # id)

\* ------------------------------------------------------------ repository
\* Faulty variant: the lookup ignores the case of the address.
Lower(e) == IF e = "Ann@x.io" THEN "ann@x.io" ELSE e

GetByEmailAnyCase(view, e) ==
    IF \E i \in DOMAIN view : Lower(view[i].email) = Lower(e)
    THEN view[CHOOSE i \in DOMAIN view : Lower(view[i].email) = Lower(e)]
    ELSE NoRow

\* UserRepository._get_by_email: scalar_one_or_none of the rows with e (the
\* UNIQUE constraint leaves at most one).
GetByEmail(view, e) ==
    IF EmailIndex(view, e) = {} THEN NoRow
    ELSE view[CHOOSE i \in EmailIndex(view, e) : TRUE]

\* Faulty variant: create does not look the email up.
CreateConflictNever(view, e) == FALSE

\* UserRepository.create, the check before the insert.
CreateConflict(view, e) == GetByEmail(view, e) # NoRow

\* UserRepository.update, "email" in updated_data and it differs from the
\* loaded row's email: the uniqueness check is run.
EmailChanging(obj, e) == e # Unset /\ e # obj.email

\* Faulty variant: the comparison of the ids is inverted.
UpdateConflictSameId(view, id, e) ==
    LET existing == GetByEmail(view, e)
    IN  existing # NoRow /\ existing.id = id

\* UserRepository.update, the check itself.
UpdateConflict(view, id, e) ==
    LET existing == GetByEmail(view, e)
    IN  existing # NoRow /\ existing.id # id

\* Faulty variant: model_dump() without exclude_unset, so that a field the
\* patch does not supply is written as None.
ApplyPatchDump(cur, obj, name, email, now) ==
    [cur EXCEPT !.name = IF name = Unset THEN Null ELSE name,
                !.email = IF email = Unset THEN Null ELSE email,
                !.updated_at = now]

\* Faulty variant: the update stamps created_at as well.
ApplyPatchStampsBoth(cur, obj, name, email, now) ==
    [cur EXCEPT !.name = IF name # Unset /\ name # obj.name THEN name ELSE @,
                !.email = IF email # Unset /\ email # obj.email THEN email ELSE @,
                !.created_at = now,
                !.updated_at = now]

\* UserRepository.update, the fields written: a field of the patch is set on
\* the loaded object; the UPDATE carries the attributes whose value changed,
\* and updated_at.
ApplyPatch(cur, obj, name, email, now) ==
    [cur EXCEPT !.name = IF name # Unset /\ name # obj.name THEN name ELSE @,
                !.email = IF email # Unset /\ email # obj.email THEN email ELSE @,
                !.updated_at = now]

\* UserRepository.get_all and count.
\* Faulty variant: the rows come back ordered by primary key.
RECURSIVE SortById(_)
SortById(view) ==
    IF view = <<>> THEN <<>>
    ELSE LET i == CHOOSE k \in DOMAIN view :
                      \A j \in DOMAIN view : view[k].id <= view[j].id
         IN  <<view[i]>> \o SortById(SubSeq(view, 1, i - 1) \o
                                     SubSeq(view, i + 1, Len(view)))

\* SELECT ... FROM users with no ORDER BY: SQLite scans the table, which
\* gives the rows in rowid order, the order of insertion.
Scan(view) == view

\* LIMIT limit OFFSET skip on the scanned rows: a negative OFFSET counts as
\* 0 and a negative LIMIT as no limit.
Window(rows, skip, limit) ==
    LET from == IF skip < 0 THEN 0 ELSE skip
        to == IF limit < 0 \/ from + limit > Len(rows) THEN Len(rows)
              ELSE from + limit
    IN  SubSeq(rows, from + 1, to)

\* Faulty variant: the window starts one row late.
RepoGetAllOffByOne(view, skip, limit) == Window(Scan(view), skip + 1, limit)

\* Faulty variant: ORDER BY id.
RepoGetAllById(view, skip, limit) == Window(SortById(view), skip, limit)

\* UserRepository.get_all: select(UserDB).offset(skip).limit(limit).
RepoGetAll(view, skip, limit) == Window(Scan(view), skip, limit)

\* UserRepository.count: select(func.count()).select_from(UserDB).
RepoCount(view) == Len(view)

\* The largest integer the driver binds; a larger parameter is an
\* OverflowError raised by the execute.
SqliteMaxInt == 2 ^ (IntBits - 1) - 1

\* ---------------------------------------------------- pagination numbers
\* UserService.get_all: the default and the largest limit.
DefaultLimit == 10
MaxLimit == 100

\* get_users: per_page is validated to 1..100 and page to 1 or more before
\* the handler runs.
MaxPerPage == 100

\* A page number whose skip overflows at the largest per_page and stays in
\* range at the smaller ones.
BigPage == SqliteMaxInt \div MaxPerPage + 2

Pages == (1..MaxPage) \cup {BigPage}
PerPages == {1, 2, 5, DefaultLimit, MaxPerPage}

\* Arguments of a direct call of UserService.get_all or
\* UserRepository.get_all.
Skips == {-1, 0, 1, 5, 10, SqliteMaxInt + 1}
Limits == {-1, 0, 1, 5, MaxLimit, MaxLimit + 1}

\* UserService.get_all: skip = max(skip, 0).
NormSkip(skip) == IF skip > 0 THEN skip ELSE 0

\* Faulty variant: a limit above the maximum is clamped to the maximum.
NormLimitClamp(limit) ==
    IF limit <= 0 THEN DefaultLimit
    ELSE IF limit > MaxLimit THEN MaxLimit ELSE limit

\* UserService.get_all: a limit outside 1..100 becomes the default.
NormLimit(limit) ==
    IF limit <= 0 \/ limit > MaxLimit THEN DefaultLimit ELSE limit

\* get_users: skip = (page - 1) * per_page.
PageSkip(page, per_page) == (page - 1) * per_page

\* math.ceil of the true quotient a / b: the least integer not below it.
Ceil(a, b) == CHOOSE q \in 0..a : q * b >= a /\ (q - 1) * b < a

\* Faulty variant: the quotient is rounded down.
TotalPagesFloor(total_count, per_page) ==
    IF total_count > 0 THEN total_count \div per_page ELSE 1

\* get_users: total_pages = ceil(total_count / per_page) if total_count > 0
\* else 1.
TotalPages(total_count, per_page) ==
    IF total_count > 0 THEN Ceil(total_count, per_page) ELSE 1

\* ------------------------------------------------------ request records
\* str(e) of the two domain exceptions as the service and the repository
\* raise them, short of the id or the email the message carries.
Message(e) ==
    CASE e = "NotFound" -> "User with ID not found"
      [] e = "AlreadyExists" -> "User with email already exists"
      [] e = "TypeError" -> "takes 1 positional argument but 2 were given"
      [] OTHER -> ""

Raise(r, e, id) ==
    [r EXCEPT !.pc = "raised", !.exc = e, !.excId = id, !.msg = Message(e)]

\* A failure that is neither of the two: raised by the session's statement,
\* with the message the driver or the ORM gives it.
Fail(r, m) == [Raise(r, "DBError", 0) EXCEPT !.msg = m]

Return(r, kind, user) == [r EXCEPT !.pc = "returned", !.ret = kind, !.user = user]

Call(r, m) == [r EXCEPT !.called = @ \cup {m}]

\* Faulty variant: the message does not name the id.
NotFoundIdOmitted(id) == 0

\* UserService.get_by_id: the message of UserNotFoundError carries the id.
NotFoundId(id) == id

\* The first statement of a request, by entry layer and operation:
\* UserService.update and delete call get_by_id first.
FirstPc(layer, op) ==
    CASE op = "create" -> "create_lookup"
      [] op = "get" -> "get_by_id"
      [] op = "update" -> IF layer = "handler" THEN "get_by_id" ELSE "update_select"
      [] op = "delete" -> IF layer = "handler" THEN "get_by_id" ELSE "delete_select"

\* ---------------------------------------------------------------- actions
Init ==
    /\ db = <<>>
    /\ tx = <<>>
    /\ writer = 0
    /\ clock = 0
    /\ issued = {}
    /\ gone = {}
    /\ started = 0
    /\ rq = [s \in Sessions |-> Idle]

\* datetime.utcnow(): the clock never goes backwards, and time may have
\* passed since it was last read.
Now == {t \in clock..(clock + 1) : t <= MaxClock}

\* A request arrives at a handler: get_db opens the session and the handler
\* holds a service whose repository is bound to that session (layer
\* "handler": the controller with a container that hands out such a
\* service, as its tests inject one; what Container itself hands out is
\* layer "app", see Wire).  Or a caller (a script, a test) uses the
\* repository directly on a session of its own, with nothing else running.
\* A draft carries a valid name and email and no id; a patch carries, for
\* each field, a value, null, or nothing.
BeginWithin(s, quota) ==
    /\ rq[s].pc = "idle"
    /\ started < quota
    /\ \A t \in Sessions : rq[t].layer # "store"
    /\ \E layer \in {"handler", "store"}, op \in {"create", "get", "update", "delete"} :
        \E id \in Ids, name \in Names \cup {Unset, Null}, email \in Emails \cup {Unset, Null} :
            /\ layer = "store" => \A t \in Sessions : rq[t].pc = "idle"
            /\ op = "create" => id = 1 /\ name \in Names /\ email \in Emails
            /\ op \in {"get", "delete"} => name = Unset /\ email = Unset
            /\ rq' = [rq EXCEPT ![s] =
                        [Idle EXCEPT !.pc = FirstPc(layer, op), !.layer = layer,
                                     !.op = op,
                                     !.id = IF op = "create" THEN 0 ELSE id,
                                     !.name = name, !.email = email,
                                     !.db0 = db]]
    /\ started' = started + 1
    /\ UNCHANGED <<db, tx, writer, clock, issued, gone>>

\* The requests of a run are bounded in number.
Begin(s) == BeginWithin(s, MaxRequests)

\* UserRepository.create: look the email up, raise when it is taken.
CreateLookup(s) ==
    LET r == Call(Call(rq[s], "create"), "_get_by_email")
    IN  /\ rq[s].pc = "create_lookup"
        /\ rq' = [rq EXCEPT ![s] =
                    IF CreateConflict(View(s), r.email)
                    THEN Raise(r, "AlreadyExists", 0)
                    ELSE [r EXCEPT !.pc = "create_flush"]]
        /\ UNCHANGED <<db, tx, writer, clock, issued, gone, started>>

\* UserRepository.create: add, flush (INSERT; the column defaults make the
\* id and the two timestamps), refresh.
CreateFlush(s) ==
    LET r == rq[s]
    IN  /\ r.pc = "create_flush"
        /\ \E newid \in Ids \ issued, t1 \in Now :
          \E t2 \in {t \in t1..(t1 + 1) : t <= MaxClock} :
            LET row == [id |-> newid, name |-> r.name, email |-> r.email,
                        created_at |-> t1, updated_at |-> t2]
            IN  /\ IF Locked(s) \/ UniqueViolated(View(s), newid, r.email)
                   THEN /\ rq' = [rq EXCEPT ![s] =
                                    Fail(r, IF Locked(s) THEN "database is locked"
                                            ELSE "UNIQUE constraint failed")]
                        /\ writer' = IF writer = s THEN 0 ELSE writer
                        /\ tx' = IF writer = s THEN db ELSE tx
                        /\ UNCHANGED <<clock, issued>>
                   ELSE /\ rq' = [rq EXCEPT ![s] = Return(r, "user", row)]
                        /\ writer' = s
                        /\ tx' = Append(View(s), row)
                        /\ clock' = t2
                        /\ issued' = issued \cup {newid}
        /\ UNCHANGED <<db, gone, started>>

\* Faulty variant: the service does not check what get_by_id returned.
ServiceOnGetNoCheck(r, row) ==
    CASE r.op = "get" -> Return(r, IF row = NoRow THEN "absent" ELSE "user", row)
      [] r.op = "update" -> [r EXCEPT !.pc = "update_select"]
      [] r.op = "delete" -> [r EXCEPT !.pc = "delete_select"]

\* UserService.get_by_id, and its callers UserService.update and delete:
\* an absent record becomes UserNotFoundError, a record that is there is
\* returned (get) or lets the service go on to the repository.
ServiceOnGet(r, row) ==
    IF row = NoRow
    THEN Raise([r EXCEPT !.ret = "absent"], "NotFound", NotFoundId(r.id))
    ELSE CASE r.op = "get" -> Return(r, "user", row)
           [] r.op = "update" -> [r EXCEPT !.pc = "update_select"]
           [] r.op = "delete" -> [r EXCEPT !.pc = "delete_select"]

\* UserRepository.get_by_id: the row or None; called by UserService.get_by_id
\* or directly.
GetById(s) ==
    LET r == Call(rq[s], "get_by_id")
        row == SelectById(View(s), r.id)
    IN  /\ rq[s].pc = "get_by_id"
        /\ rq' = [rq EXCEPT ![s] =
                    IF r.layer = "store"
                    THEN Return(r, IF row = NoRow THEN "absent" ELSE "user", row)
                    ELSE ServiceOnGet(r, row)]
        /\ UNCHANGED <<db, tx, writer, clock, issued, gone, started>>

\* Faulty variant: the service hands the repository's None or False on.
MissingReturned(r, kind) == Return(r, kind, NoRow)

\* The repository returned None or False to the service: UserNotFoundError.
Missing(r, kind) ==
    IF r.layer = "store"
    THEN Return(r, kind, NoRow)
    ELSE Raise([r EXCEPT !.ret = kind], "NotFound", NotFoundId(r.id))

\* UserRepository.update: load the row; None when there is none.
UpdateSelect(s) ==
    LET r == Call(rq[s], "update")
        row == SelectById(View(s), r.id)
    IN  /\ rq[s].pc = "update_select"
        /\ rq' = [rq EXCEPT ![s] =
                    IF row = NoRow THEN Missing(r, "absent")
                    ELSE [r EXCEPT !.obj = row,
                                   !.pc = IF EmailChanging(row, r.email)
                                          THEN "update_lookup" ELSE "update_flush"]]
        /\ UNCHANGED <<db, tx, writer, clock, issued, gone, started>>

\* UserRepository.update: the uniqueness check of a changing email.
UpdateLookup(s) ==
    LET r == Call(rq[s], "_get_by_email")
    IN  /\ rq[s].pc = "update_lookup"
        /\ rq' = [rq EXCEPT ![s] =
                    IF UpdateConflict(View(s), r.id, r.email)
                    THEN Raise(r, "AlreadyExists", 0)
                    ELSE [r EXCEPT !.pc = "update_flush"]]
        /\ UNCHANGED <<db, tx, writer, clock, issued, gone, started>>

\* UserRepository.update: set the fields and updated_at, flush (UPDATE),
\* refresh.  The UPDATE of a row that is no longer there is a
\* StaleDataError; a constraint that fails is an IntegrityError.
UpdateFlush(s) ==
    LET r == rq[s]
        cur == SelectById(View(s), r.id)
    IN  /\ r.pc = "update_flush"
        /\ \E now \in Now :
           LET new == ApplyPatch(cur, r.obj, r.name, r.email, now)
           IN
           IF \/ Locked(s)
              \/ cur = NoRow
              \/ NotNullViolated(new)
              \/ UniqueViolated(View(s), r.id, new.email)
           THEN /\ rq' = [rq EXCEPT ![s] =
                            Fail(r, CASE Locked(s) -> "database is locked"
                                      [] cur = NoRow -> "StaleDataError"
                                      [] NotNullViolated(new) -> "NOT NULL constraint failed"
                                      [] OTHER -> "UNIQUE constraint failed")]
                /\ writer' = IF writer = s THEN 0 ELSE writer
                /\ tx' = IF writer = s THEN db ELSE tx
                /\ clock' = now
           ELSE /\ rq' = [rq EXCEPT ![s] = Return(r, "user", new)]
                /\ writer' = s
                /\ tx' = ReplaceRow(View(s), new)
                /\ clock' = now
        /\ UNCHANGED <<db, issued, gone, started>>

\* UserRepository.delete: load the row; False when there is none.
DeleteSelect(s) ==
    LET r == Call(rq[s], "delete")
        row == SelectById(View(s), r.id)
    IN  /\ rq[s].pc = "delete_select"
        /\ rq' = [rq EXCEPT ![s] =
                    IF row = NoRow THEN Missing(r, "false")
                    ELSE [r EXCEPT !.obj = row, !.pc = "delete_flush"]]
        /\ UNCHANGED <<db, tx, writer, clock, issued, gone, started>>

\* UserRepository.delete: delete, flush (DELETE), return True.  A DELETE
\* that matches no row is only warned about.
DeleteFlush(s) ==
    LET r == rq[s]
    IN  /\ r.pc = "delete_flush"
        /\ IF Locked(s)
           THEN /\ rq' = [rq EXCEPT ![s] = Fail(r, "database is locked")]
                /\ UNCHANGED <<writer, tx>>
           ELSE /\ rq' = [rq EXCEPT ![s] = Return(r, "true", NoRow)]
                /\ writer' = s
                /\ tx' = RemoveRow(View(s), r.id)
        /\ UNCHANGED <<db, clock, issued, gone, started>>

\* The handler's except clauses: the status of the response.
HttpStatus(op, pc, exc) ==
    IF pc = "returned"
    THEN CASE op = "create" -> 201
           [] op = "delete" -> 204
           [] OTHER -> 200
    ELSE CASE exc = "NotFound" /\ op \in {"get", "update", "delete"} -> 404
           [] exc = "AlreadyExists" /\ op \in {"create", "update"} -> 409
           [] OTHER -> 500

\* Faulty variant: the response carries the failure's own message.
HttpDetailLeaks(op, pc, exc, msg) == IF pc = "returned" THEN "" ELSE msg

\* The handler's except clauses: the detail of an error response is str(e)
\* for the two domain exceptions and a fixed text for anything else.
HttpDetail(op, pc, exc, msg) ==
    IF pc = "returned" THEN ""
    ELSE IF HttpStatus(op, pc, exc) = 500 THEN "Internal server error" ELSE msg

\* Faulty variant: a failed commit is not followed by a rollback.
GetDbCallsNoRollback(pc, commit_ok) ==
    IF pc = "returned" THEN <<"commit">> ELSE <<"rollback">>

\* Faulty variant: the session is committed whatever the handler did.
GetDbCallsCommitAlways(pc, commit_ok) ==
    IF commit_ok THEN <<"commit">> ELSE <<"commit", "rollback">>

\* get_db after the yield, the calls it makes on the session before the
\* finally clause: commit when the handler returned; rollback (and raise)
\* when the handler raised or the commit did.
GetDbCalls(pc, commit_ok) ==
    IF pc = "returned"
    THEN IF commit_ok THEN <<"commit">> ELSE <<"commit", "rollback">>
    ELSE <<"rollback">>

\* get_db's except clause ends in raise: the exception leaves get_db when a
\* rollback was made.
Reraised(calls) == \E i \in DOMAIN calls : calls[i] = "rollback"

\* The end of the unit of work (get_db): commit when the handler returned,
\* rollback when it raised, and the response goes out.  A direct caller of
\* the repository ends its session the same way and sees no HTTP status.
Finish(s) ==
    LET r == rq[s]
        calls == GetDbCalls(r.pc, TRUE)
        commit == calls = <<"commit">> /\ writer = s
    IN  /\ r.pc \in {"returned", "raised"}
        /\ rq' = [rq EXCEPT ![s] =
                    [r EXCEPT !.pc = "done",
                              !.ends = calls,
                              !.reraised = Reraised(calls),
                              !.status = IF r.layer \in {"handler", "app"}
                                         THEN HttpStatus(r.op, r.pc, r.exc) ELSE 0,
                              !.detail = IF r.layer = "handler"
                                         THEN HttpDetail(r.op, r.pc, r.exc, r.msg)
                                         ELSE ""]]
        /\ db' = IF commit THEN tx ELSE db
        /\ tx' = IF writer = s THEN (IF commit THEN tx ELSE db) ELSE tx
        /\ writer' = IF writer = s THEN 0 ELSE writer
        /\ gone' = IF commit THEN gone \cup (RowIds(db) \ RowIds(tx)) ELSE gone
        /\ UNCHANGED <<clock, issued, started>>

\* The commit at the end of the unit of work raises (the disk is full, the
\* file is locked by a reader): get_db rolls back and raises.  The response
\* is the handler's when it has left before get_db resumes, and a 500 when
\* it has not; which of the two depends on the framework's version.
CommitFails(s) ==
    LET r == rq[s]
        calls == GetDbCalls(r.pc, FALSE)
        commit == calls = <<"commit">> /\ writer = s
    IN  /\ r.pc = "returned"
        /\ \E st \in {HttpStatus(r.op, r.pc, r.exc), 500} :
            rq' = [rq EXCEPT ![s] =
                    [r EXCEPT !.pc = "done",
                              !.exc = "DBError",
                              !.msg = "commit failed",
                              !.ends = calls,
                              !.reraised = Reraised(calls),
                              !.status = IF r.layer = "handler" THEN st ELSE 0,
                              !.detail = IF r.layer = "handler" /\ st = 500
                                         THEN "Internal server error" ELSE ""]]
        /\ db' = IF commit THEN tx ELSE db
        /\ tx' = IF writer = s THEN (IF commit THEN tx ELSE db) ELSE tx
        /\ writer' = IF writer = s THEN 0 ELSE writer
        /\ gone' = IF commit THEN gone \cup (RowIds(db) \ RowIds(tx)) ELSE gone
        /\ UNCHANGED <<clock, issued, started>>

\* get_db's finally clause and the end of the async with block: the session
\* is closed, and the response has been read.
Close(s) ==
    /\ rq[s].pc = "done"
    /\ rq' = [rq EXCEPT ![s] = Idle]
    /\ UNCHANGED <<db, tx, writer, clock, issued, gone, started>>

\* A listing request arrives at get_users, which computes skip from page
\* and per_page, or a caller uses UserService.get_all ("service") or
\* UserRepository.get_all ("store") directly with a skip and limit of its
\* own.
BeginList(s) ==
    /\ rq[s].pc = "idle"
    /\ started < MaxRequests
    /\ \A t \in Sessions : rq[t].layer \notin {"service", "store"}
    /\ \E layer \in {"handler", "service", "store"} :
        \E page \in Pages, per_page \in PerPages, skip \in Skips, limit \in Limits :
            /\ layer # "handler" => /\ \A t \in Sessions : rq[t].pc = "idle"
                                    /\ page = 1 /\ per_page = 1
            /\ layer = "handler" => skip = 0 /\ limit = 0
            /\ rq' = [rq EXCEPT ![s] =
                        [Idle EXCEPT !.pc = "list_select", !.layer = layer,
                                     !.op = "list",
                                     !.page = IF layer = "handler" THEN page ELSE 0,
                                     !.per_page = IF layer = "handler" THEN per_page ELSE 0,
                                     !.skip = IF layer = "handler"
                                              THEN PageSkip(page, per_page) ELSE skip,
                                     !.limit = IF layer = "handler" THEN per_page ELSE limit,
                                     !.db0 = db]]
    /\ started' = started + 1
    /\ UNCHANGED <<db, tx, writer, clock, issued, gone>>

\* UserService.get_all normalises skip and limit and calls
\* UserRepository.get_all, which executes the SELECT; a direct caller's
\* arguments reach the SELECT as they are.
ListSelect(s) ==
    LET q == Call(rq[s], "get_all")
        a == IF q.layer = "store" THEN <<q.skip, q.limit>>
             ELSE <<NormSkip(q.skip), NormLimit(q.limit)>>
        r == [q EXCEPT !.args = a]
    IN  /\ rq[s].pc = "list_select"
        /\ rq' = [rq EXCEPT ![s] =
                    IF a[1] > SqliteMaxInt \/ a[2] > SqliteMaxInt
                    THEN Fail(r, "OverflowError")
                    ELSE LET got == [r EXCEPT !.users = RepoGetAll(View(s), a[1], a[2])]
                         IN  IF r.layer = "store"
                             THEN Return(got, "users", NoRow)
                             ELSE [got EXCEPT !.pc = "list_count"]]
        /\ UNCHANGED <<db, tx, writer, clock, issued, gone, started>>

\* Faulty variant: the total is the length of the page.
ServiceTotalPageLength(view, users) == Len(users)

\* UserService.get_all: total_count is UserRepository.count(), whatever the
\* page holds.
ServiceTotal(view, users) == RepoCount(view)

\* UserService.get_all calls UserRepository.count and returns the page and
\* the count; get_users computes total_pages.
ListCount(s) ==
    LET r == Call(rq[s], "count")
        total_count == ServiceTotal(View(s), r.users)
    IN  /\ rq[s].pc = "list_count"
        /\ rq' = [rq EXCEPT ![s] =
                    Return([r EXCEPT !.total = total_count,
                                     !.total_pages =
                                        IF r.layer = "handler"
                                        THEN TotalPages(total_count, r.per_page)
                                        ELSE 0],
                           "users", NoRow)]
        /\ UNCHANGED <<db, tx, writer, clock, issued, gone, started>>

\* Requests of different sessions interleave.  The requests that write, and
\* the reads by id they race with, are the ones interleaved; a listing takes
\* no lock and changes nothing, and is run between the others in SeqNext.
Next ==
    \/ \E s \in Sessions :
        \/ Begin(s)
        \/ CreateLookup(s)
        \/ CreateFlush(s)
        \/ GetById(s)
        \/ UpdateSelect(s)
        \/ UpdateLookup(s)
        \/ UpdateFlush(s)
        \/ DeleteSelect(s)
        \/ DeleteFlush(s)
        \/ Finish(s)
        \/ Close(s)

Spec == Init /\ [][Next]_vars

\* Requests are issued one at a time: a request begins only while every
\* other session is idle.
SeqBegin(s) ==
    /\ \A t \in Sessions \ {s} : rq[t].pc = "idle"
    /\ Begin(s)

\* A listing issued while every other session is idle.
SeqBeginList(s) ==
    /\ \A t \in Sessions \ {s} : rq[t].pc = "idle"
    /\ BeginList(s)

SeqNext ==
    \/ \E s \in Sessions :
        \/ SeqBegin(s)
        \/ SeqBeginList(s)
        \/ ListSelect(s)
        \/ ListCount(s)
        \/ CreateLookup(s)
        \/ CreateFlush(s)
        \/ GetById(s)
        \/ UpdateSelect(s)
        \/ UpdateLookup(s)
        \/ UpdateFlush(s)
        \/ DeleteSelect(s)
        \/ DeleteFlush(s)
        \/ Finish(s)
        \/ Close(s)

SeqSpec == Init /\ [][SeqNext]_vars

\* Container.user_service: declared with no parameter besides self, so a
\* call that passes a session raises TypeError before the body runs.  With
\* no argument the body runs: self.user_service is a bound method, never
\* None, so nothing is constructed and self._user_service, None since
\* __init__, is returned.
ContainerUserService(args) ==
    IF Len(args) # 0
    THEN [exc |-> "TypeError", value |-> NoService]
    ELSE [exc |-> "none", value |-> NoService]

\* A request arrives at the application built by create_app: get_db opens
\* the session and the handler is entered.
AppBegin(s) ==
    /\ rq[s].pc = "idle"
    /\ started < MaxRequests
    /\ \E op \in {"create", "get", "update", "delete", "list"} :
        \E id \in Ids, name \in Names \cup {Unset, Null}, email \in Emails \cup {Unset, Null} :
            /\ op = "create" => id = 1 /\ name \in Names /\ email \in Emails
            /\ op \in {"get", "delete", "list"} => name = Unset /\ email = Unset
            /\ op = "list" => id = 1
            /\ rq' = [rq EXCEPT ![s] =
                        [Idle EXCEPT !.pc = "wire", !.layer = "app", !.op = op,
                                     !.id = IF op \in {"create", "list"} THEN 0 ELSE id,
                                     !.name = name, !.email = email,
                                     !.db0 = db]]
    /\ started' = started + 1
    /\ UNCHANGED <<db, tx, writer, clock, issued, gone>>

\* UserController._get_user_service, the first statement of every handler
\* and outside its try block: the container is asked for the service of
\* this request's session.
Wire(s) ==
    LET r == rq[s]
        res == ContainerUserService(<<s>>)
    IN  /\ r.pc = "wire"
        /\ rq' = [rq EXCEPT ![s] =
                    IF res.exc # "none" THEN Raise(r, res.exc, 0)
                    ELSE [r EXCEPT !.service = res.value, !.pc = "wired"]]
        /\ UNCHANGED <<db, tx, writer, clock, issued, gone, started>>

\* seed_users(n): the session is opened and the counts are zero.
SeedBegin(s) ==
    /\ rq[s].pc = "idle"
    /\ started < MaxRequests
    /\ \E n \in 0..MaxBatch :
        rq' = [rq EXCEPT ![s] =
                [Idle EXCEPT !.pc = "seed_wire", !.layer = "seed", !.op = "seed",
                             !.n = n, !.db0 = db]]
    /\ started' = started + 1
    /\ UNCHANGED <<db, tx, writer, clock, issued, gone>>

\* seed_users, the first statement of its try block: the container is asked
\* for the service of the seed's session.  What it raises is caught by the
\* outer except clause: rollback, raise.
SeedWire(s) ==
    LET r == rq[s]
        res == ContainerUserService(<<s>>)
    IN  /\ r.pc = "seed_wire"
        /\ rq' = [rq EXCEPT ![s] =
                    IF res.exc # "none" THEN Raise(r, res.exc, 0)
                    ELSE [r EXCEPT !.service = res.value, !.pc = "seed_loop"]]
        /\ UNCHANGED <<db, tx, writer, clock, issued, gone, started>>

\* The application and the seed script, as wired by Container.
AppNext ==
    \/ \E s \in Sessions :
        \/ AppBegin(s)
        \/ Wire(s)
        \/ SeedBegin(s)
        \/ SeedWire(s)
        \/ Finish(s)
        \/ Close(s)

AppSpec == Init /\ [][AppNext]_vars

\* Two requests, interleaved, each of which may find its commit failing.
UowBegin(s) == BeginWithin(s, MaxUow)

UowNext ==
    \/ \E s \in Sessions :
        \/ UowBegin(s)
        \/ CreateLookup(s)
        \/ CreateFlush(s)
        \/ GetById(s)
        \/ UpdateSelect(s)
        \/ UpdateLookup(s)
        \/ UpdateFlush(s)
        \/ DeleteSelect(s)
        \/ DeleteFlush(s)
        \/ Finish(s)
        \/ CommitFails(s)
        \/ Close(s)

UowSpec == Init /\ [][UowNext]_vars

\* ------------------------------------------------- listing a filled table
\* Addresses of the records created beforehand, all distinct.
Addr ==
    <<"u01@x.io", "u02@x.io", "u03@x.io", "u04@x.io", "u05@x.io", "u06@x.io",
      "u07@x.io", "u08@x.io", "u09@x.io", "u10@x.io", "u11@x.io", "u12@x.io",
      "u13@x.io", "u14@x.io", "u15@x.io", "u16@x.io">>

\* The id uuid4 gave the i-th record: random, so unrelated to the order of
\* creation, and none of the ids given out later.
StoredId(i) == MaxIds + 1 + ((7 * i) % 17)

\* The table after n creates with distinct emails, each committed.
Stored(n) ==
    [i \in 1..n |-> [id |-> StoredId(i),
                     name |-> IF i % 2 = 1 THEN "Ann" ELSE "Bob",
                     email |-> Addr[i], created_at |-> 0, updated_at |-> 0]]

\* The service holds some number of records and no request is in flight.
ListInit ==
    /\ \E n \in 0..MaxSeed : /\ db = Stored(n)
                             /\ tx = Stored(n)
                             /\ issued = {StoredId(i) : i \in 1..n}
    /\ writer = 0
    /\ clock = 0
    /\ gone = {}
    /\ started = 0
    /\ rq = [s \in Sessions |-> Idle]

\* Listings, one at a time, of a table that no request changes.
ListNext ==
    \/ \E s \in Sessions :
        \/ SeqBeginList(s)
        \/ ListSelect(s)
        \/ ListCount(s)
        \/ Finish(s)
        \/ Close(s)

ListSpec == ListInit /\ [][ListNext]_vars

\* ------------------------------------------------- the life of one record
\* A client takes one record through its life: each request is made when
\* the one before has been answered, with the id the create returned.
Script == <<"create", "get", "update", "delete", "get">>

\* The ids given out since the run began.
Created == issued \cap Ids

\* The client uses two connections in turn, so that the answer to the
\* request before is still at hand when the next one is answered.
Turn == (started % 2) + 1

LifeBegin(s) ==
    /\ s = Turn
    /\ \A t \in Sessions \ {s} : rq[t].pc \in {"idle", "done"}
    /\ BeginWithin(s, Len(Script))
    /\ rq'[s].layer = "handler"
    /\ rq'[s].op = Script[started + 1]
    /\ started > 0 => rq'[s].id \in Created
    /\ rq'[s].op = "update" => rq'[s].name \in Names /\ rq'[s].email = Unset

LifeNext ==
    \/ \E s \in Sessions :
        \/ LifeBegin(s)
        \/ CreateLookup(s)
        \/ CreateFlush(s)
        \/ GetById(s)
        \/ UpdateSelect(s)
        \/ UpdateFlush(s)
        \/ DeleteSelect(s)
        \/ DeleteFlush(s)
        \/ Finish(s)
        \/ Close(s)

LifeSpec == ListInit /\ [][LifeNext]_vars

\* A client that creates, updates and deletes records it has created, one
\* request at a time over two connections in turn.
ReuseBegin(s) ==
    /\ s = Turn
    /\ \A t \in Sessions \ {s} : rq[t].pc \in {"idle", "done"}
    /\ BeginWithin(s, MaxReuse)
    /\ rq'[s].layer = "handler"
    /\ rq'[s].op \in {"create", "update", "delete"}
    /\ rq'[s].op # "create" => rq'[s].id \in Created

ReuseNext ==
    \/ \E s \in Sessions :
        \/ ReuseBegin(s)
        \/ CreateLookup(s)
        \/ CreateFlush(s)
        \/ GetById(s)
        \/ UpdateSelect(s)
        \/ UpdateLookup(s)
        \/ UpdateFlush(s)
        \/ DeleteSelect(s)
        \/ DeleteFlush(s)
        \/ Finish(s)
        \/ Close(s)

ReuseSpec == Init /\ [][ReuseNext]_vars

\* ------------------------------------------------------------ properties
Done(s) == rq[s].pc = "done"

Ended(s) == rq[s].pc \in {"returned", "raised", "done"}

HasEmail(view, e) == \E i \in DOMAIN view : view[i].email = e

NoDuplicateEmail(view) ==
    \A i, j \in DOMAIN view : i # j => view[i].email # view[j].email

\* C1: with requests issued one at a time, whether they succeed or fail, no
\* two stored records have the same email (exact match), in the committed
\* table and in the table as the writing session sees it.
C1_UniqueEmailSequential == NoDuplicateEmail(db) /\ NoDuplicateEmail(tx)

\* C1 witness: after two successful creates and a failed call, two records
\* are stored whose emails differ only in case.
C1_Witness ==
    /\ Len(db) = 2
    /\ {db[i].email : i \in DOMAIN db} = Emails
    /\ \E s \in Sessions : Done(s) /\ rq[s].exc # "none"

\* Two create requests with the same email, both in flight or just ended.
CreatePair(s, t) ==
    /\ s # t
    /\ rq[s].op = "create" /\ rq[t].op = "create"
    /\ rq[s].layer = "handler" /\ rq[t].layer = "handler"
    /\ rq[s].email = rq[t].email

\* C2: while two create requests carrying the same email run in their own
\* sessions, under every interleaving at most one record with that email is
\* committed.
C2_RaceCommitsAtMostOne ==
    \A s, t \in Sessions :
        CreatePair(s, t) =>
            Cardinality({i \in DOMAIN db : db[i].email = rq[s].email}) <= 1

\* C2 witness: both requests found the email free, one committed its record
\* and the other's insert was refused by the database.
C2_Witness ==
    \E s, t \in Sessions :
        /\ CreatePair(s, t)
        /\ Done(s) /\ rq[s].exc = "none"
        /\ Done(t) /\ rq[t].exc = "DBError"
        /\ Cardinality({i \in DOMAIN db : db[i].email = rq[s].email}) = 1

\* C3: of two create requests with the same email issued concurrently, the
\* one whose record is not persisted fails with AlreadyExists (409) and
\* with no other failure.
C3_RaceLoserGetsConflict ==
    \A s, t \in Sessions :
        (CreatePair(s, t) /\ Done(s) /\ rq[s].status = 201
                          /\ Done(t) /\ rq[t].status # 201)
            => rq[t].exc = "AlreadyExists" /\ rq[t].status = 409

\* C4: Store.create with the email of an existing record fails with
\* AlreadyExists (409 at the handler) and leaves the stored records as they
\* were before the call.
C4_CreateDuplicateFails ==
    \A s \in Sessions :
        (Done(s) /\ rq[s].op = "create" /\ HasEmail(rq[s].db0, rq[s].email))
            => /\ rq[s].exc = "AlreadyExists"
               /\ rq[s].layer = "handler" => rq[s].status = 409
               /\ db = rq[s].db0
               /\ RepoCount(db) = RepoCount(rq[s].db0)

\* C4 witness: a create of a stored email has ended.
C4_Witness ==
    \E s \in Sessions :
        /\ Done(s) /\ rq[s].op = "create"
        /\ HasEmail(rq[s].db0, rq[s].email)
        /\ rq[s].exc = "AlreadyExists"
        /\ Len(db) >= 1

\* The update of request s targets a stored record and supplies an email
\* that differs from that record's and is the email of another record.
UpdateToTakenEmail(s) ==
    LET r == rq[s]
        old == SelectById(r.db0, r.id)
    IN  /\ r.op = "update"
        /\ old # NoRow
        /\ r.email \in Emails
        /\ r.email # old.email
        /\ \E i \in DOMAIN r.db0 : r.db0[i].email = r.email /\ r.db0[i].id # r.id

\* C5: updating a record to the email of another stored record fails with
\* AlreadyExists, which reaches the handler unchanged (409), and neither
\* record is modified.
C5_UpdateToTakenEmailFails ==
    \A s \in Sessions :
        (Done(s) /\ UpdateToTakenEmail(s))
            => /\ rq[s].exc = "AlreadyExists"
               /\ rq[s].layer = "handler" => rq[s].status = 409
               /\ db = rq[s].db0

\* C5 witness: such an update through the handler has ended with 409.
C5_Witness ==
    \E s \in Sessions :
        /\ Done(s) /\ UpdateToTakenEmail(s)
        /\ rq[s].layer = "handler"
        /\ rq[s].status = 409

\* The update of request s targets a stored record and supplies that
\* record's own current email.
UpdateToOwnEmail(s) ==
    LET r == rq[s]
        old == SelectById(r.db0, r.id)
    IN  r.op = "update" /\ old # NoRow /\ r.email = old.email

\* The update of request s succeeded and left the email of its record alone.
SucceededEmailKept(s) ==
    LET r == rq[s]
    IN  /\ r.exc = "none"
        /\ r.ret = "user"
        /\ r.layer = "handler" => r.status = 200
        /\ r.user.email = SelectById(r.db0, r.id).email
        /\ SelectById(db, r.id) = r.user

\* C6 as stated: an update that supplies the record's own current email is
\* never a conflict, it succeeds and the email is unchanged, whatever other
\* records exist.
C6_OwnEmailAlwaysSucceeds ==
    \A s \in Sessions :
        (Done(s) /\ UpdateToOwnEmail(s)) => SucceededEmailKept(s)

\* C6 amended: such an update never fails with AlreadyExists, whatever other
\* records exist; it succeeds with the email unchanged when the patch does
\* not also supply null for the name.
C6_OwnEmailNeverConflicts ==
    \A s \in Sessions :
        (Done(s) /\ UpdateToOwnEmail(s))
            => /\ rq[s].exc # "AlreadyExists"
               /\ rq[s].status # 409
               /\ rq[s].name # Null => SucceededEmailKept(s)

\* C6 witness: a record was given a new name and its own email while another
\* record was stored.
C6_Witness ==
    \E s \in Sessions :
        /\ Done(s) /\ UpdateToOwnEmail(s)
        /\ rq[s].layer = "handler"
        /\ rq[s].name \in Names
        /\ rq[s].name # SelectById(rq[s].db0, rq[s].id).name
        /\ Len(rq[s].db0) = 2
        /\ rq[s].status = 200

\* C7: an update whose patch supplies only a (non-null) name sets the name
\* and leaves the email as it was, and one that supplies only a (non-null)
\* email leaves the name as it was; whether or not the update succeeds, a
\* field absent from the patch is never modified.
C7_AbsentFieldUntouched ==
    \A s \in Sessions :
        LET r == rq[s]
            old == SelectById(r.db0, r.id)
            cur == SelectById(db, r.id)
        IN  (Done(s) /\ r.op = "update" /\ old # NoRow)
                => /\ cur # NoRow
                   /\ r.email = Unset => cur.email = old.email
                   /\ r.name = Unset => cur.name = old.name
                   /\ (r.email = Unset /\ r.name \in Names)
                        => r.exc = "none" /\ cur.name = r.name /\ r.user = cur
                   /\ (r.name = Unset /\ r.email \in Emails /\ r.exc = "none")
                        => cur.email = r.email /\ r.user = cur

\* C7 witness: a name-only patch changed the name of a record whose email
\* stayed, with another record stored.
C7_Witness ==
    \E s \in Sessions :
        LET r == rq[s]
            old == SelectById(r.db0, r.id)
        IN  /\ Done(s) /\ r.op = "update" /\ old # NoRow
            /\ r.email = Unset /\ r.name \in Names /\ r.name # old.name
            /\ SelectById(db, r.id).name = r.name
            /\ SelectById(db, r.id).email = old.email
            /\ Len(db) = 2

\* The update of request s came in through the handler for an id that has
\* no stored record.
UpdateOfMissing(s) ==
    /\ rq[s].op = "update"
    /\ rq[s].layer = "handler"
    /\ SelectById(rq[s].db0, rq[s].id) = NoRow

\* C8: Service.update on an id with no stored record fails with NotFound
\* before Store.update and the email uniqueness check are invoked, also when
\* the patch's email is the email of another record.
C8_MissingIdFailsFirst ==
    \A s \in Sessions :
        UpdateOfMissing(s)
            => /\ rq[s].called \subseteq {"get_by_id"}
               /\ rq[s].pc \in {"get_by_id", "raised", "done"}
               /\ Ended(s) => rq[s].exc = "NotFound" /\ rq[s].excId = rq[s].id
               /\ Done(s) => rq[s].status = 404 /\ db = rq[s].db0

\* C8 witness: the update of a missing id to the email of a stored record
\* ended with NotFound.
C8_Witness ==
    \E s \in Sessions :
        /\ UpdateOfMissing(s) /\ Done(s)
        /\ rq[s].email \in Emails
        /\ HasEmail(rq[s].db0, rq[s].email)
        /\ rq[s].status = 404

\* C9: for an id never issued or whose record was deleted, Store.get_by_id
\* returns absent without raising, and Service.get_by_id fails with NotFound
\* whose message carries that id; Service.get_by_id never returns absent.
C9_AbsentBecomesNotFound ==
    \A s \in Sessions :
        LET r == rq[s]
        IN  (Ended(s) /\ r.op = "get")
                => /\ (SelectById(r.db0, r.id) = NoRow /\ r.layer = "store")
                        => r.ret = "absent" /\ r.exc = "none"
                   /\ (SelectById(r.db0, r.id) = NoRow /\ r.layer = "handler")
                        => /\ r.ret = "absent"
                           /\ r.exc = "NotFound"
                           /\ r.excId = r.id
                           /\ Done(s) => r.status = 404
                   /\ (r.layer = "handler" /\ r.pc # "raised" /\ r.exc = "none")
                        => r.ret = "user" /\ r.user # NoRow /\ r.user.id = r.id

\* C9 witness: the get of a deleted record's id ended with NotFound.
C9_Witness ==
    \E s \in Sessions :
        /\ Done(s) /\ rq[s].op = "get" /\ rq[s].layer = "handler"
        /\ rq[s].id \in gone
        /\ rq[s].exc = "NotFound"

\* C10: Store.delete on an existing id returns true and the record is absent
\* from every later get_by_id, get_all and count; a second call on the same
\* id returns false and raises nothing.
C10_DeleteIdempotent ==
    /\ \A s \in Sessions :
        LET r == rq[s]
        IN  (Done(s) /\ r.op = "delete" /\ r.layer = "store")
                => IF SelectById(r.db0, r.id) # NoRow
                   THEN /\ r.ret = "true" /\ r.exc = "none"
                        /\ r.id \in gone
                        /\ RepoCount(db) = RepoCount(r.db0) - 1
                   ELSE /\ r.ret = "false" /\ r.exc = "none"
                        /\ db = r.db0
    /\ \A id \in gone :
        /\ SelectById(db, id) = NoRow
        /\ \A i \in DOMAIN RepoGetAll(db, 0, Len(db)) : RepoGetAll(db, 0, Len(db))[i].id # id
        /\ RepoCount(db) <= Cardinality(issued \ gone)

\* C10 witness: the second delete of the same id returned false.
C10_Witness ==
    \E s \in Sessions :
        /\ Done(s) /\ rq[s].op = "delete" /\ rq[s].layer = "store"
        /\ rq[s].id \in gone
        /\ SelectById(rq[s].db0, rq[s].id) = NoRow
        /\ rq[s].ret = "false"

\* A delete request that entered through the handler, hence through
\* UserService.delete.
ServiceDelete(s) == rq[s].op = "delete" /\ rq[s].layer = "handler"

Listed(s, layer) ==
    /\ rq[s].op = "list" /\ rq[s].layer = layer
    /\ Done(s) /\ rq[s].exc = "none"

\* The records at positions lo..hi of a sequence; none when lo > hi.
Positions(rows, lo, hi) == [j \in 1..(hi - lo + 1) |-> rows[lo + j - 1]]

Min(a, b) == IF a < b THEN a ELSE b

\* C12: with N records stored, the listing of page p with per_page k
\* returns exactly the records created (p-1)*k+1-th to min(p*k, N)-th, in the
\* order of their creation; with N = 15, p = 2, k = 5 these are the 6th to
\* the 10th, and the response carries total 15 and total_pages 3.
C12_PageIsCreationOrderSlice ==
    \A s \in Sessions :
        LET r == rq[s]
            N == Len(db)
        IN  Listed(s, "handler")
                => /\ r.users = Positions(Stored(N), (r.page - 1) * r.per_page + 1,
                                          Min(r.page * r.per_page, N))
                   /\ (N = 15 /\ r.page = 2 /\ r.per_page = 5)
                        => /\ [j \in 1..Len(r.users) |-> r.users[j].email]
                                = <<Addr[6], Addr[7], Addr[8], Addr[9], Addr[10]>>
                           /\ r.total = 15
                           /\ r.total_pages = 3

\* C12 witness: page 2 of 15 records, five to the page, has been answered.
C12_Witness ==
    \E s \in Sessions :
        /\ Listed(s, "handler")
        /\ Len(db) = 15 /\ rq[s].page = 2 /\ rq[s].per_page = 5
        /\ Len(rq[s].users) = 5
        /\ rq[s].users[1].id = StoredId(6) /\ rq[s].users[5].id = StoredId(10)

\* The page fetched from the stored records with skip = j*k and limit k.
PageAt(j, k) == RepoGetAll(db, j * k, k)

\* The page numbers 0, 1, ... up to one past the last page that has records.
PageNumbers(k) == 0..(Len(db) \div k + 1)

IdsOf(rows) == {rows[m].id : m \in DOMAIN rows}

\* C13: while the stored records do not change, the pages fetched with
\* skip = 0, k, 2k, ... and limit k are pairwise disjoint, and every stored
\* record is on exactly one of them, once; a listing answered with such a
\* skip and limit carries that page.
C13_PagesPartitionTheStore ==
    /\ \A k \in PerPages :
        /\ \A i, j \in PageNumbers(k) :
            i # j => IdsOf(PageAt(i, k)) \cap IdsOf(PageAt(j, k)) = {}
        /\ \A x \in DOMAIN db :
            Cardinality({jm \in PageNumbers(k) \X (1..k) :
                            /\ jm[2] \in DOMAIN PageAt(jm[1], k)
                            /\ PageAt(jm[1], k)[jm[2]] = db[x]}) = 1
        /\ \A j \in PageNumbers(k) : IdsOf(PageAt(j, k)) \subseteq IdsOf(db)
    /\ \A s \in Sessions :
        LET r == rq[s]
        IN  (Listed(s, "service") /\ r.skip >= 0 /\ r.limit \in PerPages
                                  /\ r.skip % r.limit = 0)
                => r.users = PageAt(r.skip \div r.limit, r.limit)

\* C13 witness: of 15 stored records the third page of five was fetched
\* through the service, after which the three pages hold 15 distinct
\* records.
C13_Witness ==
    \E s \in Sessions :
        /\ Listed(s, "service")
        /\ Len(db) = 15
        /\ rq[s].skip = 10 /\ rq[s].limit = 5
        /\ IdsOf(rq[s].users) = {StoredId(i) : i \in 11..15}
        /\ Cardinality(IdsOf(PageAt(0, 5)) \cup IdsOf(PageAt(1, 5))
                                           \cup IdsOf(rq[s].users)) = 15

\* C14: whatever skip and limit are, the total UserService.get_all returns is
\* the number of records stored at the time, not the length of the page it
\* returns with it.
C14_TotalIsStoreCount ==
    \A s \in Sessions :
        LET r == rq[s]
        IN  (r.op = "list" /\ r.layer \in {"service", "handler"}
                           /\ Ended(s) /\ r.exc = "none")
                => /\ r.total = Cardinality(RowIds(db))
                   /\ r.total = Cardinality(RowIds(r.db0))
                   /\ Len(r.users) <= r.total

\* C14 witness: with two records stored, a listing returned a page of one
\* record and the total 2.
C14_Witness ==
    \E s \in Sessions :
        /\ Listed(s, "service")
        /\ Len(db) = 2
        /\ Len(rq[s].users) = 1
        /\ rq[s].total = 2

\* A listing through UserService.get_all whose call of
\* UserRepository.get_all has been made.
ServiceCalledGetAll(s) ==
    /\ rq[s].op = "list" /\ rq[s].layer \in {"service", "handler"}
    /\ "get_all" \in rq[s].called

\* C15: UserService.get_all calls UserRepository.get_all with max(skip, 0)
\* for skip and with 10 for a limit that is <= 0 or > 100; a skip >= 0 and a
\* limit in 1..100 are passed on as they are.
C15_GetAllNormalises ==
    \A s \in Sessions :
        LET r == rq[s]
        IN  ServiceCalledGetAll(s)
                => /\ r.args[1] = (IF r.skip < 0 THEN 0 ELSE r.skip)
                   /\ r.args[2] = (IF r.limit <= 0 \/ r.limit > 100 THEN 10 ELSE r.limit)
                   /\ (r.skip >= 0 /\ r.limit \in 1..100) => r.args = <<r.skip, r.limit>>

\* C15 witness: get_all(-1, 101) called the repository with (0, 10) and
\* returned.
C15_Witness ==
    \E s \in Sessions :
        /\ Listed(s, "service")
        /\ rq[s].skip = -1 /\ rq[s].limit = 101
        /\ rq[s].args = <<0, 10>>
        /\ Len(db) > 10 /\ Len(rq[s].users) = 10

\* C16: for every page >= 1 and per_page in 1..100, get_users asks the
\* service for skip = (page-1)*per_page and limit = per_page, and for every
\* total >= 0 it reports total_pages = (total + per_page - 1) div per_page
\* when total > 0 and total_pages = 1 when total = 0.
C16_PaginationArithmetic ==
    /\ \A k \in 1..100 :
        TotalPages(Len(db), k) = (IF Len(db) = 0 THEN 1 ELSE (Len(db) + k - 1) \div k)
    /\ \A s \in Sessions :
        LET r == rq[s]
        IN  (r.op = "list" /\ r.layer = "handler")
                => /\ r.page >= 1 /\ r.per_page \in 1..100
                   /\ r.skip = (r.page - 1) * r.per_page
                   /\ r.limit = r.per_page
                   /\ "get_all" \in r.called => r.args = <<r.skip, r.per_page>>
                   /\ Listed(s, "handler")
                        => /\ r.total >= 0
                           /\ r.total > 0 =>
                                r.total_pages = (r.total + r.per_page - 1) \div r.per_page
                           /\ r.total = 0 => r.total_pages = 1

\* C16 witness: page 3 of 15 records, two to the page, was answered with
\* skip 4 and total_pages 8.
C16_Witness ==
    \E s \in Sessions :
        /\ Listed(s, "handler")
        /\ rq[s].page = 3 /\ rq[s].per_page = 2
        /\ rq[s].args = <<4, 2>>
        /\ rq[s].total = 15
        /\ rq[s].total_pages = 8

\* The number of records a finished listing asked the table to skip.
AskedSkip(r) == IF r.skip < 0 THEN 0 ELSE r.skip

\* C17: a listing whose skip is at or beyond the number of stored records
\* succeeds with an empty sequence of records and the true total; with no
\* record stored every page request is answered with no records, total 0
\* and total_pages 1.
C17_SkipBeyondEndIsEmpty ==
    \A s \in Sessions :
        LET r == rq[s]
        IN  (r.op = "list" /\ Done(s) /\ AskedSkip(r) >= Len(db))
                => /\ r.exc = "none"
                   /\ r.users = <<>>
                   /\ r.layer # "store" => r.total = Len(db)
                   /\ r.layer = "handler" => r.status = 200
                   /\ (r.layer = "handler" /\ Len(db) = 0)
                        => r.total = 0 /\ r.total_pages = 1

\* C18: every handler outcome is a success response or one of 404, 409,
\* 500: NotFound from the service gives 404 on get, update and delete,
\* AlreadyExists gives 409 on create and update, and every other failure
\* gives 500 with the detail 'Internal server error', whatever the
\* failure's own message is.
C18_OutcomeIsSuccessOr404_409_500 ==
    \A s \in Sessions :
        LET r == rq[s]
        IN  (Done(s) /\ r.layer = "handler")
                => /\ r.status \in {200, 201, 204, 404, 409, 500}
                   /\ r.exc = "none" <=> r.status \in {200, 201, 204}
                   /\ (r.exc = "NotFound" /\ r.op \in {"get", "update", "delete"})
                        => r.status = 404
                   /\ (r.exc = "AlreadyExists" /\ r.op \in {"create", "update"})
                        => r.status = 409
                   /\ r.exc \notin {"none", "NotFound", "AlreadyExists"}
                        => r.status = 500
                   /\ r.status = 500
                        => r.detail = "Internal server error" /\ r.detail # r.msg
                   /\ r.status \in {404, 409} => r.detail = r.msg

\* C18 witness: an update whose statement found the database locked by
\* another request was answered 500 with the fixed detail.
C18_Witness ==
    \E s \in Sessions :
        /\ Done(s) /\ rq[s].layer = "handler" /\ rq[s].op = "update"
        /\ rq[s].exc = "DBError"
        /\ rq[s].msg = "database is locked"
        /\ rq[s].status = 500
        /\ rq[s].detail = "Internal server error"

\* In the life of one record: the session of the request begun last, the
\* session of the one before, and the records stored before the create.
Cur == ((started - 1) % 2) + 1

Prev == 3 - Cur

Before == Cardinality(RowIds(db) \ Ids)

\* The k-th request of the script has been answered.
Answered(k) == started = k /\ Done(Cur)

\* The answer to the request before is still at hand.
PrevAtHand == Done(Prev) /\ rq[Prev].op = Script[started - 1]

\* C19: in the sequence create, get, update with name only, delete, get on
\* one record, create returns a generated id, the first get returns the
\* created name and email, update returns the new name with the email
\* unchanged, delete succeeds, the final get fails with NotFound, and the
\* total count is back to its value before the create.
C19_Lifecycle ==
    LET r == rq[Cur]
        p == rq[Prev]
    IN  /\ SubSeq(db, 1, Before) = Stored(Before)
        /\ Answered(1)
            => /\ r.status = 201
               /\ r.user.id \in Ids /\ r.user.id \notin RowIds(r.db0)
               /\ r.user.name = r.name /\ r.user.email = r.email
               /\ RepoCount(r.db0) = Before
               /\ RepoCount(db) = Before + 1
        /\ Answered(2)
            => /\ r.status = 200
               /\ r.user.id = r.id
               /\ PrevAtHand => /\ r.id = p.user.id
                                /\ r.user.name = p.name
                                /\ r.user.email = p.email
        /\ Answered(3)
            => /\ r.status = 200
               /\ r.user.id = r.id
               /\ r.user.name = r.name
               /\ PrevAtHand => /\ r.id = p.id
                                /\ r.user.email = p.user.email
        /\ Answered(4)
            => /\ r.status = 204 /\ r.ret = "true"
               /\ PrevAtHand => r.id = p.id
        /\ Answered(5)
            => /\ r.status = 404 /\ r.exc = "NotFound"
               /\ PrevAtHand => r.id = p.id
               /\ RepoCount(db) = Before

\* C19 witness: with 15 other records stored, the record was created, read,
\* renamed from Ann to Bob and deleted, and the final get was answered 404
\* while the answer to the delete was still at hand.
C19_Witness ==
    /\ Answered(5)
    /\ PrevAtHand
    /\ rq[Prev].status = 204
    /\ rq[Cur].status = 404
    /\ rq[Cur].id \in gone
    /\ RepoCount(db) = 15

\* A request that can change or remove the record with this id is in
\* flight.
Touching(id) ==
    \E s \in Sessions : rq[s].op \in {"update", "delete"} /\ rq[s].id = id

\* A step leaves the id, name and email of every stored record as they
\* were, unless an update or a delete of that record is in flight.
KeepsUntouchedRecords ==
    \A id \in Ids :
        (SelectById(db, id) # NoRow /\ ~Touching(id))
            => /\ SelectById(db', id).id = id
               /\ SelectById(db', id).name = SelectById(db, id).name
               /\ SelectById(db', id).email = SelectById(db, id).email

\* What UserRepository.create and get_by_id have returned, against the
\* table.
CreatedIsStored ==
    \A s \in Sessions :
        LET r == rq[s]
        IN  /\ (r.op = "create" /\ Ended(s) /\ r.exc = "none")
                => /\ r.user.id # 0
                   /\ r.user.name = r.name /\ r.user.email = r.email
                   /\ SelectById(View(s), r.user.id) = r.user
                   /\ Done(s) => SelectById(db, r.user.id) = r.user
            /\ (r.op = "get" /\ Ended(s) /\ SelectById(r.db0, r.id) # NoRow)
                => /\ r.ret = "user"
                   /\ r.user.id = r.id
                   /\ r.user = SelectById(r.db0, r.id)

\* C20: after UserRepository.create(draft) has returned user u,
\* get_by_id(u.id) returns a record with u's id and the draft's name and
\* email, for as long as no update or delete of u.id intervenes: the record
\* is stored as returned, a step that is no update or delete of it keeps its
\* id, name and email, and get_by_id returns the stored record of that id.
C20_CreateThenGet == []CreatedIsStored /\ [][KeepsUntouchedRecords]_vars

\* C20 witness: a record was created, then another one, and get_by_id on
\* the first one's id returned it.
C20_Witness ==
    \E s \in Sessions :
        /\ Done(s) /\ rq[s].op = "get" /\ rq[s].layer = "store"
        /\ started = 3 /\ Len(db) = 2
        /\ rq[s].ret = "user"
        /\ rq[s].user = db[1]
        /\ rq[s].user.id = rq[s].id

\* A listing that asks for the records from the first one on, with room for
\* all of them.
ListsAll(r) == r.args # <<>> /\ r.args[1] <= 0 /\ (r.args[2] < 0 \/ r.args[2] >= Len(r.db0))

\* C21: a create whose email no stored record has succeeds and adds its
\* record, whichever of two drafts with distinct emails comes first; a
\* later listing of the whole table reports every stored record and their
\* number, so both records and a total of 2 when nothing else was stored.
C21_DistinctEmailsBothStored ==
    \A s \in Sessions :
        LET r == rq[s]
        IN  /\ (r.op = "create" /\ Done(s) /\ ~HasEmail(r.db0, r.email))
                => /\ r.exc = "none"
                   /\ r.layer = "handler" => r.status = 201
                   /\ db = Append(r.db0, r.user)
                   /\ r.user.email = r.email
            /\ (r.op = "list" /\ Done(s) /\ r.exc = "none" /\ ListsAll(r))
                => /\ r.users = db
                   /\ r.layer # "store" => r.total = Len(db)
                   /\ (started = 3 /\ Len(db) = 2)
                        => /\ {r.users[i].email : i \in DOMAIN r.users} = Emails
                           /\ r.layer # "store" => r.total = 2

\* C21 witness: two drafts with distinct emails were created, Ann@x.io
\* first, and the listing that followed reported both and a total of 2.
C21_Witness ==
    \E s \in Sessions :
        /\ Listed(s, "handler")
        /\ started = 3
        /\ Len(rq[s].users) = 2
        /\ rq[s].users[1].email = "Ann@x.io" /\ rq[s].users[2].email = "ann@x.io"
        /\ rq[s].total = 2

\* The rows of a table, committed or of an open transaction, are stamped in
\* order.
StampsInOrder(view) == \A i \in DOMAIN view : view[i].updated_at >= view[i].created_at

\* The session whose update of record id is being committed in this step.
CommitsUpdateOf(id) ==
    \E s \in Sessions :
        /\ rq[s].op = "update" /\ rq[s].id = id
        /\ rq[s].pc = "returned" /\ rq'[s].pc = "done"

\* From one committed state to the next a record keeps its created_at, and
\* its updated_at moves only forward and only by a successful update of it.
StampsMoveByUpdate ==
    \A i \in DOMAIN db, j \in DOMAIN db' :
        db[i].id = db'[j].id
            => /\ db'[j].created_at = db[i].created_at
               /\ db'[j].updated_at >= db[i].updated_at
               /\ db'[j].updated_at # db[i].updated_at => CommitsUpdateOf(db[i].id)

\* C22: with a clock that never goes backwards every stored record has
\* updated_at >= created_at; both are set when the record is created, and
\* afterwards only updated_at is reassigned, by each successful update.
C22_UpdatedNotBeforeCreated ==
    /\ [](StampsInOrder(db) /\ StampsInOrder(tx))
    /\ [][StampsMoveByUpdate]_vars

\* C22 witness: a record created at time 0 was updated at time 1 and is
\* stored with created_at 0 and updated_at 1.
C22_Witness ==
    \E s \in Sessions, i \in DOMAIN db :
        /\ rq[s].op = "update" /\ Done(s) /\ rq[s].exc = "none"
        /\ db[i].id = rq[s].id
        /\ db[i].created_at = 0 /\ db[i].updated_at = 1
        /\ rq[s].user = db[i]

\* An update that returned the updated record and is committed.
Updated(s) == rq[s].op = "update" /\ Done(s) /\ rq[s].exc = "none" /\ rq[s].ret = "user"

\* C26: a successful update never changes the record's id or created_at
\* (only name, email and updated_at can differ from before), and it
\* modifies no other record: the table afterwards is the table before with
\* the one row replaced by the record returned.
C26_UpdateFrame ==
    \A s \in Sessions :
        Updated(s) =>
            LET r == rq[s]
            IN  /\ DOMAIN db = DOMAIN r.db0
                /\ \E i \in DOMAIN r.db0 : r.db0[i].id = r.id
                /\ \A i \in DOMAIN r.db0 :
                     IF r.db0[i].id = r.id
                     THEN /\ db[i] = r.user
                          /\ db[i].id = r.db0[i].id
                          /\ db[i].created_at = r.db0[i].created_at
                          /\ db[i].name \in {r.db0[i].name, r.name}
                          /\ db[i].email \in {r.db0[i].email, r.email}
                     ELSE db[i] = r.db0[i]

\* C26 witness: with two records stored, an update gave one of them another
\* name and a later updated_at.
C26_Witness ==
    \E s \in Sessions, i \in DOMAIN db :
        /\ Updated(s)
        /\ Len(db) = 2
        /\ db[i].id = rq[s].id
        /\ db[i].name # rq[s].db0[i].name
        /\ db[i].updated_at > rq[s].db0[i].updated_at

\* get_db resumes after its yield in this step and ends the unit of work of
\* session s.
Leaves(s) == rq[s].pc \in {"returned", "raised"} /\ rq'[s].pc = "done"

\* The number of commits among the calls made on a session.
Commits(calls) == Cardinality({i \in DOMAIN calls : calls[i] = "commit"})

\* What get_db does when the handler has finished: one commit and nothing
\* raised when the handler returned and the commit went through; a rollback
\* and the exception raised again when the handler raised or the commit
\* did, with nothing of the request committed.
GetDbAfterYield ==
    \A s \in Sessions :
        Leaves(s) =>
            LET r == rq[s]
                q == rq'[s]
            IN  /\ Commits(q.ends) <= 1
                /\ r.pc = "raised"
                     => q.ends = <<"rollback">> /\ q.reraised /\ db' = db
                /\ (r.pc = "returned" /\ q.msg # "commit failed")
                     => /\ q.ends = <<"commit">> /\ ~q.reraised
                        /\ db' = IF writer = s THEN tx ELSE db
                /\ (r.pc = "returned" /\ q.msg = "commit failed")
                     => q.ends = <<"commit", "rollback">> /\ q.reraised /\ db' = db

\* The session is closed only after the commit or the rollback, and nothing
\* else follows them.
ClosedAfterEnd ==
    \A s \in Sessions :
        /\ (rq[s].pc # "idle" /\ rq'[s].pc = "idle")
             => rq[s].pc = "done" /\ rq[s].ends # <<>>
        /\ rq[s].pc = "done" => rq'[s].pc \in {"done", "idle"}

\* C24: get_db commits exactly once when the handler finishes without
\* raising; it rolls back and raises again when the handler or the commit
\* raises; and in every case the close comes after the commit or rollback
\* and can be taken.
C24_GetDbCommitRollbackClose ==
    /\ [][GetDbAfterYield /\ ClosedAfterEnd]_vars
    /\ [](\A s \in Sessions : Done(s) => ENABLED Close(s))

\* C24 witness: a create returned a record, the commit raised, get_db rolled
\* back and raised, and the record is not stored.
C24_Witness ==
    \E s \in Sessions :
        /\ Done(s) /\ rq[s].op = "create" /\ rq[s].ret = "user"
        /\ rq[s].ends = <<"commit", "rollback">> /\ rq[s].reraised
        /\ ~HasEmail(db, rq[s].email)
        /\ writer = 0

\* The statuses of a request that failed.
ErrorStatuses == {404, 409, 500}

\* C28: a request that ends in 404, 409 or 500 leaves the committed table
\* exactly as it was: the step that ends it changes no committed record,
\* the session was rolled back and holds no transaction afterwards; and the
\* committed table changes only in a step that ends a request whose
\* handler returned.
C28_FailedRequestStoresNothing ==
    [][/\ \A s \in Sessions :
            (Leaves(s) /\ rq[s].layer = "handler" /\ rq'[s].status \in ErrorStatuses)
                => /\ db' = db
                   /\ Reraised(rq'[s].ends)
                   /\ writer' # s
                   /\ writer = s => tx' = db
       /\ db' # db => \E s \in Sessions : Leaves(s) /\ rq[s].pc = "returned"
                                          /\ rq'[s].ends = <<"commit">>
      ]_vars

\* C28 witness: an update that sets the name of a stored record to null
\* failed at the flush, the request ended in 500 after a rollback, and the
\* table is as it was when the request began.
C28_Witness ==
    \E s \in Sessions :
        /\ Done(s) /\ rq[s].layer = "handler" /\ rq[s].op = "update"
        /\ rq[s].name = Null
        /\ rq[s].status = 500 /\ rq[s].msg = "NOT NULL constraint failed"
        /\ rq[s].ends = <<"rollback">>
        /\ Len(db) = 1 /\ db = rq[s].db0

\* No row of the table has a null (or missing) name or email.
NoNulls(view) ==
    \A i \in DOMAIN view : view[i].name \in Names /\ view[i].email \in Emails

\* An update of a record that exists, by a patch that supplies null for
\* name or for email.
NullPatch(s) ==
    /\ rq[s].op = "update"
    /\ rq[s].name = Null \/ rq[s].email = Null
    /\ rq[s].obj # NoRow

\* C29: every stored record has a non-null name and a non-null email, also
\* among the rows of an open transaction; an update of an existing record
\* whose patch supplies null for name or email fails, and the failed
\* request holds nothing to be stored.
C29_NoNullNameOrEmail ==
    /\ NoNulls(db) /\ NoNulls(tx)
    /\ \A s \in Sessions :
        (NullPatch(s) /\ Ended(s))
            => /\ rq[s].exc # "none"
               /\ rq[s].pc # "returned"
               /\ writer # s
               /\ rq[s].layer = "handler" /\ Done(s) => rq[s].status \in ErrorStatuses

\* C29 witness: a patch with a null email for a stored record was refused by
\* the NOT NULL constraint, and the record still has its email.
C29_Witness ==
    \E s \in Sessions :
        /\ NullPatch(s) /\ Done(s) /\ rq[s].email = Null
        /\ rq[s].msg = "NOT NULL constraint failed"
        /\ SelectById(db, rq[s].id) # NoRow
        /\ SelectById(db, rq[s].id).email = rq[s].obj.email

\* The request before the latest one was a delete that removed a record, and
\* its answer is still at hand: the record it removed.
Deleted ==
    IF /\ started >= 2
       /\ Done(Prev) /\ rq[Prev].op = "delete" /\ rq[Prev].status = 204
    THEN SelectById(rq[Prev].db0, rq[Prev].id)
    ELSE NoRow

TwoDeletesAnswered(s, t) ==
    /\ s # t
    /\ ServiceDelete(s) /\ ServiceDelete(t)
    /\ rq[s].id = rq[t].id
    /\ SelectById(rq[s].db0, rq[s].id) # NoRow
    /\ SelectById(rq[t].db0, rq[t].id) # NoRow
    /\ Done(s) /\ Done(t)

\* C27: of two concurrent delete requests for the same existing id exactly
\* one succeeds (204) and the other fails with NotFound (404); neither ends
\* in a generic failure (500).
C27_OneDeleteWinsOtherNotFound ==
    \A s, t \in Sessions :
        TwoDeletesAnswered(s, t)
            => /\ {rq[s].status, rq[t].status} = {204, 404}
               /\ rq[s].status = 404 => rq[s].exc = "NotFound"

\* The container has been asked for the service of session s.
Wired(s) == rq[s].layer \in {"app", "seed"} /\ rq[s].pc \notin {"idle", "wire", "seed_wire"}

\* C23: each call Container.user_service(session) returns a new UserService
\* holding a new UserRepository bound to exactly the session passed in; two
\* calls never return the same service or the same repository.
C23_ServicePerSession ==
    \A s \in Sessions :
        Wired(s)
            => /\ rq[s].exc = "none"
               /\ rq[s].service # NoService
               /\ rq[s].service.session = s
               /\ rq[s].service.repository # rq[s].service.obj
               /\ \A t \in Sessions \ {s} :
                    Wired(t) => /\ rq[t].service.obj # rq[s].service.obj
                                /\ rq[t].service.repository # rq[s].service.repository

\* C25: seed_users(n) attempts all n creations even when some fail: when it
\* has ended, created_count + failed_count = n, nothing was raised, and the
\* created_count records created are committed.
C25_SeedCountsAllAttempts ==
    \A s \in Sessions :
        (rq[s].op = "seed" /\ Done(s))
            => /\ rq[s].exc = "none"
               /\ rq[s].ends = <<"commit">>
               /\ rq[s].created_count + rq[s].failed_count = rq[s].n
               /\ Len(db) = Len(rq[s].db0) + rq[s].created_count

====
